---- MODULE Spec2Model ----
(***************************************************************************)
(* Model of asann/structure_reader.py: optional-dependency detection at    *)
(* module import, the two adapter classes AseStructure and                 *)
(* PymatgenStructure over the abstract base AbstractStructure, and the     *)
(* factory structure_from_file.                                            *)
(*                                                                         *)
(* The wrapped libraries are the environment: whether each is installed,   *)
(* and what each of their file readers does with a given file, are inputs. *)
(* Python values are modelled as records:                                  *)
(*   a library structure  [lib, type, file, pbc]                           *)
(*   a returned value     [tag, val, of]   tag in None / value / object /  *)
(*                                         raise                           *)
(*   an adapter object    [cls, structure, pbc_enabled]                    *)
(***************************************************************************)
EXTENDS Integers, Sequences, FiniteSets, TLC

VARIABLES
    ase_installed,      \* environment: `import ase.io` succeeds
    pymatgen_installed, \* environment: `import pymatgen` succeeds
    pc,                 \* position of the module-level code (lines 10-30)
    _has_reader,        \* module globals: "undef", "True" or "False"
    _has_ase,
    _has_pymatgen,
    imports,            \* imports attempted by the module-level code, in order
    warned,             \* warnings.warn calls made, in order
    load_error,         \* exception that ended the import of the module
    heap,               \* adapter objects the caller holds
    last                \* the last call made by the caller and its outcome

vars == <<ase_installed, pymatgen_installed, pc, _has_reader, _has_ase,
          _has_pymatgen, imports, warned, load_error, heap, last>>

(***************************************************************************)
(* Bounds and input sets                                                   *)
(***************************************************************************)
MaxObjects == 1

Filenames == {"POSCAR", "mol.xyz"}

\* Exceptions a library reader may raise.  UnicodeDecodeError is a subclass
\* of ValueError; IOError is not.
ReaderErrors == {"ValueError", "UnicodeDecodeError", "IOError"}

Outcomes == {"ok"} \cup ReaderErrors

\* Atoms.pbc: one flag per cell direction.
PbcFlags == [1..3 -> BOOLEAN]

\* When ase.io.read raises there is no Atoms object, hence no pbc.
NoPbc == [i \in 1..3 |-> FALSE]

\* The behaviour of a library that the call does not consult.
NoLib == [read |-> "ok", pbc |-> NoPbc, Structure |-> "ok", Molecule |-> "ok"]

\* What the libraries do with one file: ase.io.read (and the pbc of the Atoms
\* it returns), pymatgen Structure.from_file and Molecule.from_file.  No
\* constructor consults both libraries, so the behaviours vary one library at
\* a time.
LibBehaviours ==
    {b \in [read : Outcomes, pbc : PbcFlags,
            Structure : Outcomes, Molecule : Outcomes] :
        /\ b.read # "ok" => b.pbc = NoPbc
        /\ \/ b.read = NoLib.read /\ b.pbc = NoLib.pbc
           \/ b.Structure = NoLib.Structure /\ b.Molecule = NoLib.Molecule}

IsInstance(exc, base) ==
    \/ exc = base
    \/ base = "ValueError" /\ exc = "UnicodeDecodeError"

(***************************************************************************)
(* Python values                                                           *)
(***************************************************************************)
NoStructure == [lib |-> "None", type |-> "None", file |-> "None", pbc |-> <<>>]

None == [tag |-> "None", val |-> "None", of |-> NoStructure]

Raise(exc) == [tag |-> "raise", val |-> exc, of |-> NoStructure]

\* A value obtained from the wrapped library's structure s through accessor a.
LibValue(a, s) == [tag |-> "value", val |-> a, of |-> s]

AseAtoms(filename, pbc) ==
    [lib |-> "ase", type |-> "Atoms", file |-> filename, pbc |-> pbc]

PymStructure(filename) ==
    [lib |-> "pymatgen", type |-> "Structure", file |-> filename,
     pbc |-> <<TRUE, TRUE, TRUE>>]

PymMolecule(filename) ==
    [lib |-> "pymatgen", type |-> "Molecule", file |-> filename, pbc |-> <<>>]

\* Python's all() over a sequence of flags.
all(flags) == \A i \in DOMAIN flags : flags[i]

\* Accessors of the wrapped libraries.  A Molecule has no lattice and no
\* frac_coords; None has no attributes at all.
LibAccess(a, s) ==
    IF s.lib = "None" THEN Raise("AttributeError")
    ELSE IF s.type = "Molecule" /\ a \in {"lattice.matrix", "frac_coords"}
         THEN Raise("AttributeError")
    ELSE LibValue(a, s)

(***************************************************************************)
(* AbstractStructure: class attributes (lines 37-38)                        *)
(***************************************************************************)
ClassDefaults == [structure |-> NoStructure, pbc_enabled |-> FALSE]

(***************************************************************************)
(* Constructors.  Each returns the fields of self when __init__ ended, the  *)
(* reader calls it made, the exception it raised ("none" if none) and the   *)
(* value it returned.                                                      *)
(***************************************************************************)
\* Variant: any() in place of all() on the pbc flags.
AseStructure_init_any(env, filename, lib) ==
    IF ~env.ase
    THEN [self |-> ClassDefaults, reads |-> <<>>,
          exc |-> "ImportError", ret |-> "None"]
    ELSE IF lib.read # "ok"
    THEN [self |-> ClassDefaults,
          reads |-> <<[reader |-> "ase.io.read", outcome |-> lib.read]>>,
          exc |-> lib.read, ret |-> "None"]
    ELSE [self |-> [structure |-> AseAtoms(filename, lib.pbc),
                    pbc_enabled |-> \E i \in DOMAIN lib.pbc : lib.pbc[i]],
          reads |-> <<[reader |-> "ase.io.read", outcome |-> "ok"]>>,
          exc |-> "none", ret |-> "None"]

AseStructure_init(env, filename, lib) ==
    IF ~env.ase
    THEN [self |-> ClassDefaults, reads |-> <<>>,
          exc |-> "ImportError", ret |-> "None"]
    ELSE IF lib.read # "ok"
    THEN [self |-> ClassDefaults,
          reads |-> <<[reader |-> "ase.io.read", outcome |-> lib.read]>>,
          exc |-> lib.read, ret |-> "None"]
    ELSE [self |-> [structure |-> AseAtoms(filename, lib.pbc),
                    pbc_enabled |-> all(lib.pbc)],
          reads |-> <<[reader |-> "ase.io.read", outcome |-> "ok"]>>,
          exc |-> "none", ret |-> "None"]

\* Variant: `except Exception` in place of `except ValueError`.
PymatgenStructure_init_catch_all(env, filename, lib) ==
    LET first == [reader |-> "Structure.from_file", outcome |-> lib.Structure]
        second == [reader |-> "Molecule.from_file", outcome |-> lib.Molecule]
    IN  IF ~env.pymatgen
        THEN [self |-> ClassDefaults, reads |-> <<>>,
              exc |-> "ImportError", ret |-> "None"]
        ELSE IF lib.Structure = "ok"
        THEN [self |-> [structure |-> PymStructure(filename),
                        pbc_enabled |-> TRUE],
              reads |-> <<first>>, exc |-> "none", ret |-> "self"]
        ELSE IF lib.Molecule = "ok"
        THEN [self |-> [structure |-> PymMolecule(filename),
                        pbc_enabled |-> FALSE],
              reads |-> <<first, second>>, exc |-> "none", ret |-> "self"]
        ELSE [self |-> ClassDefaults, reads |-> <<first, second>>,
              exc |-> lib.Molecule, ret |-> "None"]

\* Variant: the fallback branch sets pbc_enabled as the first branch does.
PymatgenStructure_init_pbc_kept(env, filename, lib) ==
    LET first == [reader |-> "Structure.from_file", outcome |-> lib.Structure]
        second == [reader |-> "Molecule.from_file", outcome |-> lib.Molecule]
    IN  IF ~env.pymatgen
        THEN [self |-> ClassDefaults, reads |-> <<>>,
              exc |-> "ImportError", ret |-> "None"]
        ELSE IF lib.Structure = "ok"
        THEN [self |-> [structure |-> PymStructure(filename),
                        pbc_enabled |-> TRUE],
              reads |-> <<first>>, exc |-> "none", ret |-> "self"]
        ELSE IF IsInstance(lib.Structure, "ValueError")
        THEN IF lib.Molecule = "ok"
             THEN [self |-> [structure |-> PymMolecule(filename),
                             pbc_enabled |-> TRUE],
                   reads |-> <<first, second>>, exc |-> "none", ret |-> "self"]
             ELSE [self |-> ClassDefaults, reads |-> <<first, second>>,
                   exc |-> lib.Molecule, ret |-> "None"]
        ELSE [self |-> ClassDefaults, reads |-> <<first>>,
              exc |-> lib.Structure, ret |-> "None"]

PymatgenStructure_init(env, filename, lib) ==
    LET first == [reader |-> "Structure.from_file", outcome |-> lib.Structure]
        second == [reader |-> "Molecule.from_file", outcome |-> lib.Molecule]
    IN  IF ~env.pymatgen
        THEN [self |-> ClassDefaults, reads |-> <<>>,
              exc |-> "ImportError", ret |-> "None"]
        ELSE IF lib.Structure = "ok"
        THEN [self |-> [structure |-> PymStructure(filename),
                        pbc_enabled |-> TRUE],
              reads |-> <<first>>, exc |-> "none", ret |-> "self"]
        ELSE IF IsInstance(lib.Structure, "ValueError")
        THEN IF lib.Molecule = "ok"
             THEN [self |-> [structure |-> PymMolecule(filename),
                             pbc_enabled |-> FALSE],
                   reads |-> <<first, second>>, exc |-> "none", ret |-> "self"]
             ELSE [self |-> ClassDefaults, reads |-> <<first, second>>,
                   exc |-> lib.Molecule, ret |-> "None"]
        ELSE [self |-> ClassDefaults, reads |-> <<first>>,
              exc |-> lib.Structure, ret |-> "None"]

\* cls(filename): __init__ runs on a fresh object; an exception propagates,
\* and a return value other than None makes the call raise TypeError.
\* The outcome keeps what __init__ did (cls, self, reads) next to the result.
from_file(cls, env, filename, lib) ==
    LET r == IF cls = "AseStructure"
             THEN AseStructure_init(env, filename, lib)
             ELSE PymatgenStructure_init(env, filename, lib)
        result == IF r.exc # "none" THEN Raise(r.exc)
                  ELSE IF r.ret # "None" THEN Raise("TypeError")
                  ELSE [tag |-> "object", val |-> cls, of |-> r.self.structure]
    IN  [cls |-> cls, self |-> r.self, reads |-> r.reads, result |-> result]

NoCall == [cls |-> "none", self |-> ClassDefaults, reads |-> <<>>,
           result |-> None]

\* Variant: the two branches of the factory in the other order.
structure_from_file_pymatgen_first(has_ase, has_pymatgen, env, filename, lib) ==
    IF has_pymatgen = "undef" THEN [NoCall EXCEPT !.result = Raise("NameError")]
    ELSE IF has_pymatgen = "True"
         THEN from_file("PymatgenStructure", env, filename, lib)
    ELSE IF has_ase = "undef"
         THEN [NoCall EXCEPT !.result = Raise("NameError")]
    ELSE IF has_ase = "True" THEN from_file("AseStructure", env, filename, lib)
    ELSE NoCall

\* The factory.  A global that was never assigned raises NameError when read.
structure_from_file(has_ase, has_pymatgen, env, filename, lib) ==
    IF has_ase = "undef" THEN [NoCall EXCEPT !.result = Raise("NameError")]
    ELSE IF has_ase = "True" THEN from_file("AseStructure", env, filename, lib)
    ELSE IF has_pymatgen = "undef"
         THEN [NoCall EXCEPT !.result = Raise("NameError")]
    ELSE IF has_pymatgen = "True"
         THEN from_file("PymatgenStructure", env, filename, lib)
    ELSE NoCall

(***************************************************************************)
(* Methods.  Each takes the receiver [cls, structure, pbc_enabled] and      *)
(* returns the receiver as the call leaves it together with the result.     *)
(***************************************************************************)
\* Variant: the cell is returned whatever pbc_enabled is.
AseStructure_get_cell_matrix_always_cell(self) ==
    [self |-> self, result |-> LibAccess("cell", self.structure)]

AseStructure_get_cell_matrix(self) ==
    [self |-> self,
     result |-> IF self.pbc_enabled THEN LibAccess("cell", self.structure)
                ELSE None]

AseStructure_get_frac_coords(self) ==
    [self |-> self,
     result |-> IF ~self.pbc_enabled THEN Raise("AssertionError")
                ELSE LibAccess("get_scaled_positions()", self.structure)]

AseStructure_get_cart_coords(self) ==
    [self |-> self, result |-> LibAccess("get_positions()", self.structure)]

PymatgenStructure_get_cell_matrix(self) ==
    [self |-> self,
     result |-> IF self.pbc_enabled
                THEN LibAccess("lattice.matrix", self.structure)
                ELSE None]

\* Variant: no assertion on pbc_enabled.
PymatgenStructure_get_frac_coords_no_assert(self) ==
    [self |-> self, result |-> LibAccess("frac_coords", self.structure)]

PymatgenStructure_get_frac_coords(self) ==
    [self |-> self,
     result |-> IF ~self.pbc_enabled THEN Raise("AssertionError")
                ELSE LibAccess("frac_coords", self.structure)]

PymatgenStructure_get_cart_coords(self) ==
    [self |-> self, result |-> LibAccess("cart_coords", self.structure)]

\* Method lookup on the receiver's class.
get_cell_matrix(self) ==
    IF self.cls = "AseStructure" THEN AseStructure_get_cell_matrix(self)
    ELSE PymatgenStructure_get_cell_matrix(self)

get_frac_coords(self) ==
    IF self.cls = "AseStructure" THEN AseStructure_get_frac_coords(self)
    ELSE PymatgenStructure_get_frac_coords(self)

get_cart_coords(self) ==
    IF self.cls = "AseStructure" THEN AseStructure_get_cart_coords(self)
    ELSE PymatgenStructure_get_cart_coords(self)

\* Variant: the two branches of get_coords exchanged.
get_coords_swapped(self) ==
    IF self.pbc_enabled THEN get_cart_coords(self)
    ELSE get_frac_coords(self)

\* AbstractStructure.get_coords, inherited by both adapters.
get_coords(self) ==
    IF self.pbc_enabled THEN get_frac_coords(self)
    ELSE get_cart_coords(self)

(***************************************************************************)
(* Module-level library detection (lines 10-30)                            *)
(***************************************************************************)
\* Lines 10-18: globals and warning after the attempt to import ase.io.
DetectAse(installed) ==
    IF installed
    THEN [has_ase |-> "True", has_reader |-> "True", warn |-> <<>>]
    ELSE [has_ase |-> "False", has_reader |-> "False", warn |-> <<"ASE">>]

\* Variant: pymatgen is tried whatever the outcome of the ASE import.
DetectPymatgen_always(has_reader, has_pymatgen, installed) ==
    IF installed
    THEN [tried |-> <<"pymatgen">>, has_pymatgen |-> "True",
          has_reader |-> "True", warn |-> <<>>]
    ELSE [tried |-> <<"pymatgen">>, has_pymatgen |-> "False",
          has_reader |-> has_reader, warn |-> <<"Pymatgen">>]

\* Lines 20-27: pymatgen is tried only when no reader was found so far.
DetectPymatgen(has_reader, has_pymatgen, installed) ==
    IF has_reader = "True"
    THEN [tried |-> <<>>, has_pymatgen |-> has_pymatgen,
          has_reader |-> has_reader, warn |-> <<>>]
    ELSE IF installed
    THEN [tried |-> <<"pymatgen">>, has_pymatgen |-> "True",
          has_reader |-> "True", warn |-> <<>>]
    ELSE [tried |-> <<"pymatgen">>, has_pymatgen |-> "False",
          has_reader |-> has_reader, warn |-> <<"Pymatgen">>]

\* Variant: the import completes without a reader.
CheckReader_never_raises(has_reader) == "none"

\* Lines 29-30: the exception that ends the import, "none" if it completes.
CheckReader(has_reader) ==
    IF has_reader # "True" THEN "NotImplementedError" ELSE "none"

(***************************************************************************)
(* State machine                                                           *)
(***************************************************************************)
NoObject == [cls |-> "none", structure |-> NoStructure, pbc_enabled |-> FALSE]

NoLast == [op |-> "none", file |-> "None", lib |-> NoLib, recv |-> NoObject,
           cls |-> "none", self |-> ClassDefaults, reads |-> <<>>,
           result |-> None]

Env == [ase |-> ase_installed, pymatgen |-> pymatgen_installed]

Init ==
    /\ ase_installed \in BOOLEAN
    /\ pymatgen_installed \in BOOLEAN
    /\ pc = "import_ase"
    /\ _has_reader = "undef"
    /\ _has_ase = "undef"
    /\ _has_pymatgen = "undef"
    /\ imports = <<>>
    /\ warned = <<>>
    /\ load_error = "none"
    /\ heap = <<>>
    /\ last = NoLast

ImportAse ==
    /\ pc = "import_ase"
    /\ LET d == DetectAse(ase_installed)
       IN  /\ _has_ase' = d.has_ase
           /\ _has_reader' = d.has_reader
           /\ warned' = warned \o d.warn
    /\ imports' = Append(imports, "ase.io")
    /\ pc' = "import_pymatgen"
    /\ UNCHANGED <<ase_installed, pymatgen_installed, _has_pymatgen,
                   load_error, heap, last>>

ImportPymatgen ==
    /\ pc = "import_pymatgen"
    /\ LET d == DetectPymatgen(_has_reader, _has_pymatgen, pymatgen_installed)
       IN  /\ _has_pymatgen' = d.has_pymatgen
           /\ _has_reader' = d.has_reader
           /\ warned' = warned \o d.warn
           /\ imports' = imports \o d.tried
    /\ pc' = "check_reader"
    /\ UNCHANGED <<ase_installed, pymatgen_installed, _has_ase,
                   load_error, heap, last>>

RequireReader ==
    /\ pc = "check_reader"
    /\ load_error' = CheckReader(_has_reader)
    /\ pc' = IF load_error' = "none" THEN "loaded" ELSE "failed"
    /\ UNCHANGED <<ase_installed, pymatgen_installed, _has_reader, _has_ase,
                   _has_pymatgen, imports, warned, heap, last>>

\* The caller keeps the objects it was returned, the newest MaxObjects ones.
Keep(objects, call) ==
    IF call.result.tag # "object" THEN objects
    ELSE LET o == [cls |-> call.cls, structure |-> call.self.structure,
                   pbc_enabled |-> call.self.pbc_enabled]
         IN  IF Len(objects) < MaxObjects THEN Append(objects, o)
             ELSE Append(Tail(objects), o)

Call_structure_from_file ==
    /\ pc = "loaded"
    /\ \E filename \in Filenames, lib \in LibBehaviours :
         LET call == structure_from_file(_has_ase, _has_pymatgen, Env,
                                         filename, lib)
         IN  /\ last' = [op |-> "structure_from_file", file |-> filename,
                         lib |-> lib, recv |-> NoObject, cls |-> call.cls,
                         self |-> call.self, reads |-> call.reads,
                         result |-> call.result]
             /\ heap' = Keep(heap, call)
    /\ UNCHANGED <<ase_installed, pymatgen_installed, pc, _has_reader,
                   _has_ase, _has_pymatgen, imports, warned, load_error>>

\* AseStructure.from_file(filename) or PymatgenStructure.from_file(filename),
\* called on the class directly.
Call_from_file ==
    /\ pc = "loaded"
    /\ \E cls \in {"AseStructure", "PymatgenStructure"},
          filename \in Filenames, lib \in LibBehaviours :
         LET call == from_file(cls, Env, filename, lib)
         IN  /\ last' = [op |-> "from_file", file |-> filename,
                         lib |-> lib, recv |-> NoObject, cls |-> call.cls,
                         self |-> call.self, reads |-> call.reads,
                         result |-> call.result]
             /\ heap' = Keep(heap, call)
    /\ UNCHANGED <<ase_installed, pymatgen_installed, pc, _has_reader,
                   _has_ase, _has_pymatgen, imports, warned, load_error>>

\* A method call on heap[i] that came back with r: the receiver is left as
\* the method left it and the call is recorded.
Invoke(name, i, r) ==
    /\ heap' = [heap EXCEPT ![i] = r.self]
    /\ last' = [op |-> name, file |-> "None", lib |-> NoLib,
                recv |-> heap[i], cls |-> heap[i].cls,
                self |-> [structure |-> r.self.structure,
                          pbc_enabled |-> r.self.pbc_enabled],
                reads |-> <<>>, result |-> r.result]

Call_get_cell_matrix ==
    /\ pc = "loaded"
    /\ \E i \in 1..Len(heap) :
         Invoke("get_cell_matrix", i, get_cell_matrix(heap[i]))
    /\ UNCHANGED <<ase_installed, pymatgen_installed, pc, _has_reader,
                   _has_ase, _has_pymatgen, imports, warned, load_error>>

Call_get_frac_coords ==
    /\ pc = "loaded"
    /\ \E i \in 1..Len(heap) :
         Invoke("get_frac_coords", i, get_frac_coords(heap[i]))
    /\ UNCHANGED <<ase_installed, pymatgen_installed, pc, _has_reader,
                   _has_ase, _has_pymatgen, imports, warned, load_error>>

Call_get_cart_coords ==
    /\ pc = "loaded"
    /\ \E i \in 1..Len(heap) :
         Invoke("get_cart_coords", i, get_cart_coords(heap[i]))
    /\ UNCHANGED <<ase_installed, pymatgen_installed, pc, _has_reader,
                   _has_ase, _has_pymatgen, imports, warned, load_error>>

Call_get_coords ==
    /\ pc = "loaded"
    /\ \E i \in 1..Len(heap) :
         Invoke("get_coords", i, get_coords(heap[i]))
    /\ UNCHANGED <<ase_installed, pymatgen_installed, pc, _has_reader,
                   _has_ase, _has_pymatgen, imports, warned, load_error>>

Next ==
    \/ ImportAse
    \/ ImportPymatgen
    \/ RequireReader
    \/ Call_structure_from_file
    \/ Call_from_file
    \/ Call_get_cell_matrix
    \/ Call_get_frac_coords
    \/ Call_get_cart_coords
    \/ Call_get_coords

Spec == Init /\ [][Next]_vars

TypeOK ==
    /\ pc \in {"import_ase", "import_pymatgen", "check_reader", "loaded",
               "failed"}
    /\ _has_reader \in {"undef", "True", "False"}
    /\ Len(heap) <= MaxObjects

(***************************************************************************)
(* The adapter methods on their own: the state after construction is one    *)
(* adapter object as a completed __init__ of its class leaves it, in a      *)
(* module that loaded; the steps are the method calls.                      *)
(***************************************************************************)
ObjectsAfterInit(env) ==
    LET inits == {[cls |-> c,
                   r |-> IF c = "AseStructure"
                         THEN AseStructure_init(env, f, b)
                         ELSE PymatgenStructure_init(env, f, b)] :
                     c \in {"AseStructure", "PymatgenStructure"},
                     f \in Filenames, b \in LibBehaviours}
    IN  {[cls |-> x.cls, structure |-> x.r.self.structure,
          pbc_enabled |-> x.r.self.pbc_enabled] :
            x \in {y \in inits : y.r.exc = "none"}}

InitMethods ==
    /\ ase_installed \in BOOLEAN
    /\ pymatgen_installed \in BOOLEAN
    /\ LET a == DetectAse(ase_installed)
           p == DetectPymatgen(a.has_reader, "undef", pymatgen_installed)
       IN  /\ CheckReader(p.has_reader) = "none"
           /\ _has_ase = a.has_ase
           /\ _has_pymatgen = p.has_pymatgen
           /\ _has_reader = p.has_reader
           /\ imports = <<"ase.io">> \o p.tried
           /\ warned = a.warn \o p.warn
    /\ pc = "loaded"
    /\ load_error = "none"
    /\ \E o \in ObjectsAfterInit(Env) : heap = <<o>>
    /\ last = NoLast

NextMethods ==
    \/ Call_get_cell_matrix
    \/ Call_get_frac_coords
    \/ Call_get_cart_coords
    \/ Call_get_coords

SpecMethods == InitMethods /\ [][NextMethods]_vars

(***************************************************************************)
(* Properties                                                              *)
(***************************************************************************)
Constructing == last.op \in {"structure_from_file", "from_file"}

Periodic == <<TRUE, TRUE, TRUE>>

\* Pymatgen can read the file: as a Structure, or, the Structure reader
\* having rejected it with ValueError, as a Molecule.
PymatgenCanRead(lib) ==
    \/ lib.Structure = "ok"
    \/ lib.Structure = "ValueError" /\ lib.Molecule = "ok"

\* C1: with ASE not importable and Pymatgen importable, structure_from_file
\* on a file Pymatgen can read returns a PymatgenStructure object and does
\* not end in an error.
C1_PymatgenStructureReturned ==
    ( /\ last.op = "structure_from_file"
      /\ ~ase_installed
      /\ pymatgen_installed
      /\ PymatgenCanRead(last.lib) )
    => /\ last.result.tag = "object"
       /\ last.result.val = "PymatgenStructure"

\* C2: with neither library importable the import of the module ends in
\* NotImplementedError; the module never loads, so no call is ever made and
\* no adapter object ever exists.
C2_NoReaderNoModule ==
    (~ase_installed /\ ~pymatgen_installed)
    => /\ pc # "loaded"
       /\ pc \notin {"import_ase", "import_pymatgen", "check_reader"}
            => pc = "failed" /\ load_error = "NotImplementedError"
       /\ last = NoLast
       /\ heap = <<>>

C2_Witness ==
    /\ ~ase_installed
    /\ ~pymatgen_installed
    /\ pc = "failed"
    /\ load_error = "NotImplementedError"
    /\ imports = <<"ase.io", "pymatgen">>

\* C3: get_coords() returns exactly what get_frac_coords() returns on a
\* receiver with pbc_enabled true (the library's fractional coordinates) and
\* exactly what get_cart_coords() returns on one with pbc_enabled false (the
\* library's cartesian coordinates).
C3_GetCoordsDispatch ==
    last.op = "get_coords"
    => IF last.recv.pbc_enabled
       THEN /\ last.result = get_frac_coords(last.recv).result
            /\ last.result.val \in {"get_scaled_positions()", "frac_coords"}
            /\ last.result.of = last.recv.structure
       ELSE /\ last.result = get_cart_coords(last.recv).result
            /\ last.result.val \in {"get_positions()", "cart_coords"}
            /\ last.result.of = last.recv.structure

C3_Witness ==
    /\ last.op = "get_coords"
    /\ last.recv.cls = "PymatgenStructure"
    /\ ~last.recv.pbc_enabled
    /\ last.result = LibValue("cart_coords", last.recv.structure)

\* C4: when ASE is importable, structure_from_file constructs an AseStructure
\* whether or not Pymatgen is installed, and returns it when ase.io.read
\* returns; the import of pymatgen is attempted only after the import of ASE
\* failed; the factory constructs a PymatgenStructure only when ASE is
\* unavailable.
C4_AsePreferred ==
    /\ (last.op = "structure_from_file" /\ ase_installed)
       => /\ last.cls = "AseStructure"
          /\ last.reads = <<[reader |-> "ase.io.read",
                             outcome |-> last.lib.read]>>
          /\ last.lib.read = "ok"
                => /\ last.result.tag = "object"
                   /\ last.result.val = "AseStructure"
                   /\ last.result.of = AseAtoms(last.file, last.lib.pbc)
    /\ (\E i \in DOMAIN imports : imports[i] = "pymatgen")
       => /\ imports = <<"ase.io", "pymatgen">>
          /\ _has_ase = "False"
          /\ ~ase_installed
    /\ (last.op = "structure_from_file" /\ last.cls = "PymatgenStructure")
       => ~ase_installed /\ _has_ase = "False"

C4_Witness ==
    /\ last.op = "structure_from_file"
    /\ ase_installed
    /\ pymatgen_installed
    /\ imports = <<"ase.io">>
    /\ last.result.tag = "object"
    /\ last.result.val = "AseStructure"

\* C5 as stated: every error raised by a library reader during construction
\* propagates to the caller.
C5_EveryReaderErrorPropagates ==
    Constructing
    => \A i \in DOMAIN last.reads :
          last.reads[i].outcome # "ok"
          => last.result = Raise(last.reads[i].outcome)

\* C5 as amended: every error raised by ase.io.read, every error raised by
\* Molecule.from_file and every error other than a ValueError raised by
\* Structure.from_file propagates to the caller, which is then returned no
\* object; a ValueError raised by Structure.from_file is caught and answered
\* by the call of Molecule.from_file.
C5_ReaderErrorsPropagate ==
    Constructing
    => \A i \in DOMAIN last.reads :
          LET rd == last.reads[i]
              caught == /\ rd.reader = "Structure.from_file"
                        /\ rd.outcome \in {"ValueError", "UnicodeDecodeError"}
          IN  /\ rd.outcome = (CASE rd.reader = "ase.io.read" -> last.lib.read
                                 [] rd.reader = "Structure.from_file"
                                      -> last.lib.Structure
                                 [] rd.reader = "Molecule.from_file"
                                      -> last.lib.Molecule)
              /\ (rd.outcome # "ok" /\ ~caught)
                 => /\ last.result = Raise(rd.outcome)
                    /\ i = Len(last.reads)
              /\ caught
                 => /\ Len(last.reads) = i + 1
                    /\ last.reads[i + 1].reader = "Molecule.from_file"

C5_Witness ==
    /\ Constructing
    /\ Len(last.reads) = 1
    /\ last.reads[1] = [reader |-> "Structure.from_file", outcome |-> "IOError"]
    /\ last.result = Raise("IOError")

\* C6: get_frac_coords() on a receiver with pbc_enabled false fails with
\* AssertionError and leaves structure and pbc_enabled as they were; on a
\* receiver with pbc_enabled true it returns the library's fractional
\* coordinates.
C6_FracCoordsAsserted ==
    last.op = "get_frac_coords"
    => /\ ~last.recv.pbc_enabled
          => /\ last.result = Raise("AssertionError")
             /\ last.self.structure = last.recv.structure
             /\ last.self.pbc_enabled = last.recv.pbc_enabled
             /\ \E i \in DOMAIN heap : heap[i] = last.recv
       /\ last.recv.pbc_enabled
          => last.result =
               LibValue(IF last.recv.cls = "AseStructure"
                        THEN "get_scaled_positions()" ELSE "frac_coords",
                        last.recv.structure)

C6_Witness ==
    /\ last.op = "get_frac_coords"
    /\ last.recv.cls = "PymatgenStructure"
    /\ ~last.recv.pbc_enabled
    /\ last.result = Raise("AssertionError")
    /\ heap = <<last.recv>>

\* C7: get_cell_matrix() returns None if and only if pbc_enabled is false;
\* with pbc_enabled true it returns the library's cell (structure.cell for
\* ASE, structure.lattice.matrix for Pymatgen).
C7_CellMatrixIffPeriodic ==
    last.op = "get_cell_matrix"
    => /\ (last.result = None) <=> ~last.recv.pbc_enabled
       /\ last.recv.pbc_enabled
          => last.result =
               LibValue(IF last.recv.cls = "AseStructure"
                        THEN "cell" ELSE "lattice.matrix",
                        last.recv.structure)

C7_Witness ==
    /\ last.op = "get_cell_matrix"
    /\ last.recv.cls = "AseStructure"
    /\ ~last.recv.pbc_enabled
    /\ last.recv.structure.pbc = <<TRUE, TRUE, FALSE>>
    /\ last.result = None

\* C8: a constructed AseStructure has pbc_enabled true exactly when the Atoms
\* read are periodic along all three cell directions; otherwise its
\* get_cell_matrix() returns None and its get_coords() returns the cartesian
\* coordinates.
C8_AsePbcAllDirections ==
    /\ (Constructing /\ last.cls = "AseStructure"
                     /\ last.result.tag = "object")
       => /\ last.self.structure = AseAtoms(last.file, last.lib.pbc)
          /\ last.self.pbc_enabled <=> (last.lib.pbc = Periodic)
    /\ \A i \in DOMAIN heap :
          heap[i].cls = "AseStructure"
          => (heap[i].pbc_enabled <=> (heap[i].structure.pbc = Periodic))
    /\ (last.recv.cls = "AseStructure" /\ last.recv.structure.pbc # Periodic)
       => /\ last.op = "get_cell_matrix" => last.result = None
          /\ last.op = "get_coords"
                => last.result =
                     LibValue("get_positions()", last.recv.structure)

C8_Witness ==
    /\ last.op = "get_coords"
    /\ last.recv.cls = "AseStructure"
    /\ last.recv.structure.pbc = <<TRUE, FALSE, TRUE>>
    /\ ~last.recv.pbc_enabled
    /\ last.result = LibValue("get_positions()", last.recv.structure)

\* C9: the construction of a PymatgenStructure reads the file as a Structure
\* first and, if that read returns, sets pbc_enabled to true; it reads the
\* file as a Molecule only when the first read raised a ValueError, and then
\* sets pbc_enabled to false with structure holding the Molecule; any other
\* exception of the first read, and any exception of the Molecule read, ends
\* the construction with that exception and without a further read.
C9_PymatgenReadOrder ==
    (Constructing /\ last.cls = "PymatgenStructure" /\ pymatgen_installed)
    => LET lib == last.lib
           first == [reader |-> "Structure.from_file",
                     outcome |-> lib.Structure]
           second == [reader |-> "Molecule.from_file",
                      outcome |-> lib.Molecule]
       IN  /\ lib.Structure = "ok"
              => /\ last.reads = <<first>>
                 /\ last.self = [structure |-> PymStructure(last.file),
                                 pbc_enabled |-> TRUE]
           /\ lib.Structure \in {"ValueError", "UnicodeDecodeError"}
              => /\ last.reads = <<first, second>>
                 /\ lib.Molecule = "ok"
                    => last.self = [structure |-> PymMolecule(last.file),
                                    pbc_enabled |-> FALSE]
                 /\ lib.Molecule # "ok"
                    => /\ last.result = Raise(lib.Molecule)
                       /\ last.self = ClassDefaults
           /\ lib.Structure \notin {"ok", "ValueError", "UnicodeDecodeError"}
              => /\ last.reads = <<first>>
                 /\ last.result = Raise(lib.Structure)
                 /\ last.self = ClassDefaults

C9_Witness ==
    /\ Constructing
    /\ last.cls = "PymatgenStructure"
    /\ Len(last.reads) = 2
    /\ last.reads[1].outcome = "ValueError"
    /\ last.self.structure = PymMolecule(last.file)
    /\ ~last.self.pbc_enabled

\* C10: once the module has loaded, ASE is available or Pymatgen is; every
\* call of structure_from_file constructs one of the two adapters and ends
\* with an object or an exception, never with None, and never reads
\* _has_pymatgen while it is undefined (NameError).
C10_FactoryTotal ==
    /\ pc = "loaded"
       => \/ _has_ase = "True"
          \/ _has_ase = "False" /\ _has_pymatgen = "True"
    /\ last.op = "structure_from_file"
       => /\ last.cls \in {"AseStructure", "PymatgenStructure"}
          /\ last.result.tag \in {"object", "raise"}
          /\ last.result # Raise("NameError")

C10_Witness ==
    /\ last.op = "structure_from_file"
    /\ _has_pymatgen = "undef"
    /\ pymatgen_installed
    /\ last.result.tag = "object"

====
